---------------------------- MODULE Spec2Model ----------------------------
(***************************************************************************)
(* A model of anki-formater (src/main.go).                                 *)
(*                                                                         *)
(* Markup is a sequence of lexemes.  A lexeme is the literal text of one   *)
(* tag, one template delimiter, one entity or one character, written out   *)
(* as a TLA+ string; the markup a sequence stands for is the               *)
(* concatenation of its lexemes.  Every regular expression of the source   *)
(* is translated to a matcher over lexeme sequences: which lexemes a       *)
(* pattern's literal parts and character classes accept is read off the    *)
(* lexeme's text, and the leftmost / lazy / non-overlapping semantics of   *)
(* Go's regexp and strings packages are kept.                              *)
(***************************************************************************)
EXTENDS Integers, Sequences, FiniteSets, TLC

(***************************************************************************)
(* Lexemes.                                                                *)
(***************************************************************************)
STYLE_OPEN  == "<style>"
STYLE_CLOSE == "</style>"
TR_OPEN     == "<div class=\"dc-line dc-translation\">"
ANY_OPEN    == "<p class=\"dc-translation\">"
LINE_OPEN   == "<div class=\"dc-line\">"
DIV_CLOSE   == "</div>"
P_CLOSE     == "</p>"
DOWN_OPEN   == "<span class=\"dc-down\">"
GAP_OPEN    == "<span class=\"dc-gap\">"
SPAN_CLOSE  == "</span>"
B_OPEN      == "<b>"
CARD_OPEN   == "<div class=\"dc-card foo\" data-x=\"1\">"
CARD_OUT    == "<div class=\"dc-card foo\" style=\"padding-bottom:1rem;\">"
IMG_BG      == "<div class=\"dc-image\" style=\"background-image:url(x.png)\"></div>"
IMG_NOBG    == "<div class=\"dc-image\" style=\"width:9px\"></div>"
IMG_BG_HEAD == "<div class=\"dc-image\" style=\"background-image:url(x.png)\">"
IMG_NOBG_HEAD == "<div class=\"dc-image\" style=\"width:9px\">"
IMG_BG_OUT  == "<div class=\"dc-image\" style=\"display:inline-block;width:calc(50% - 10px);padding-bottom:29%;background-position:center;background-repeat:no-repeat;background-size:cover;margin-left:2px;margin-right:2px;background-image:url(x.png);\"></div>"
IMG_NOBG_OUT == "<div class=\"dc-image\" style=\"display:inline-block;width:calc(50% - 10px);padding-bottom:29%;background-position:center;background-repeat:no-repeat;background-size:cover;margin-left:2px;margin-right:2px;\"></div>"
COLOR_OPEN  == "<span style=\"color:COLOR;\">"
AUDIO_OPEN  == "<div class=\"dc-audio\" style=\"padding:0.4rem;margin-top:0.25rem;\">"
CL_OPEN     == "{{c1::"
CL_HEAD     == "{{c1"
SEP         == "::"
CL_CLOSE    == "}}"
SND         == "[sound:"
SP          == " "
QUOTE       == "\""
LT          == "<"
GT          == ">"
AMP         == "&"
E_AMP       == "&amp;"
E_LT        == "&lt;"
E_GT        == "&gt;"
E_QUOT      == "&#34;"

\* Lexemes that begin with '<' and end with '>' (whole tags).
TagTokens ==
  { STYLE_OPEN, STYLE_CLOSE, TR_OPEN, ANY_OPEN, LINE_OPEN, DIV_CLOSE, P_CLOSE,
    DOWN_OPEN, GAP_OPEN, SPAN_CLOSE, B_OPEN, CARD_OPEN, CARD_OUT, IMG_BG,
    IMG_NOBG, IMG_BG_HEAD, IMG_NOBG_HEAD, IMG_BG_OUT, IMG_NOBG_OUT,
    COLOR_OPEN, AUDIO_OPEN }

\* Lexemes whose text ends with the literal "</div>".
EndsDivClose == { DIV_CLOSE, IMG_BG, IMG_NOBG, IMG_BG_OUT, IMG_NOBG_OUT }

\* Lexemes whose text ends with a closing tag "</name>".
EndsAnyClose == EndsDivClose \cup { P_CLOSE, SPAN_CLOSE, STYLE_CLOSE }

\* Lexemes that are an opening tag whose class attribute holds the word
\* dc-translation.
TransOpeners == { TR_OPEN, ANY_OPEN }

\* The text a lexeme of EndsAnyClose holds before its final closing tag: what a
\* lazy group (.*?) captures of it when the closing tag ends the match.
HeadOf(t) ==
  CASE t = IMG_BG   -> <<IMG_BG_HEAD>>
    [] t = IMG_NOBG -> <<IMG_NOBG_HEAD>>
    [] OTHER        -> <<>>

(***************************************************************************)
(* Sequence helpers (Go slicing and strings.Index over lexemes).           *)
(***************************************************************************)
Slice(s, from, to) == IF from > to THEN <<>> ELSE SubSeq(s, from, to)

\* First index >= from whose lexeme is in set S; 0 when there is none.
RECURSIVE IndexFrom(_, _, _)
IndexFrom(s, from, S) ==
  IF from > Len(s) THEN 0
  ELSE IF s[from] \in S THEN from
  ELSE IndexFrom(s, from + 1, S)

Contains(s, S) == IndexFrom(s, 1, S) # 0

RECURSIVE Count(_, _)
Count(s, S) ==
  IF s = <<>> THEN 0
  ELSE (IF Head(s) \in S THEN 1 ELSE 0) + Count(Tail(s), S)

(***************************************************************************)
(* stripTags, html.UnescapeString, html.EscapeString, strings.TrimSpace.   *)
(***************************************************************************)
RECURSIVE StripScan(_, _, _)
StripScan(s, i, inTag) ==
  IF i > Len(s) THEN <<>>
  ELSE IF s[i] = LT THEN StripScan(s, i + 1, TRUE)
  ELSE IF s[i] = GT \/ s[i] \in TagTokens THEN StripScan(s, i + 1, FALSE)
  ELSE IF inTag THEN StripScan(s, i + 1, inTag)
  ELSE <<s[i]>> \o StripScan(s, i + 1, inTag)

UnescapeTok(t) ==
  CASE t = E_AMP  -> AMP
    [] t = E_LT   -> LT
    [] t = E_GT   -> GT
    [] t = E_QUOT -> QUOTE
    [] OTHER      -> t

EscapeTok(t) ==
  CASE t = AMP   -> E_AMP
    [] t = LT    -> E_LT
    [] t = GT    -> E_GT
    [] t = QUOTE -> E_QUOT
    [] OTHER     -> t

RECURSIVE UnescapeString(_)
UnescapeString(s) ==
  IF s = <<>> THEN <<>> ELSE <<UnescapeTok(Head(s))>> \o UnescapeString(Tail(s))

RECURSIVE EscapeString(_)
EscapeString(s) ==
  IF s = <<>> THEN <<>> ELSE <<EscapeTok(Head(s))>> \o EscapeString(Tail(s))

RECURSIVE TrimLeft(_, _)
TrimLeft(s, cut) ==
  IF s # <<>> /\ Head(s) \in cut THEN TrimLeft(Tail(s), cut) ELSE s

RECURSIVE TrimRight(_, _)
TrimRight(s, cut) ==
  IF s # <<>> /\ s[Len(s)] \in cut
  THEN TrimRight(SubSeq(s, 1, Len(s) - 1), cut) ELSE s

Trim(s, cut) == TrimRight(TrimLeft(s, cut), cut)

TrimSpace(s) == Trim(s, {SP})

stripTags(s) == TrimSpace(UnescapeString(StripScan(s, 1, FALSE)))

(***************************************************************************)
(* The passes of transform, one operator per regular expression use.       *)
(***************************************************************************)
\* reStyleBlock.ReplaceAllString(h, ""): each "<style" .. first "</style>".
RECURSIVE StripStyle(_)
StripStyle(s) ==
  LET i == IndexFrom(s, 1, {STYLE_OPEN})
      k == IF i = 0 THEN 0 ELSE IndexFrom(s, i + 1, {STYLE_CLOSE})
  IN  IF k = 0 THEN s
      ELSE Slice(s, 1, i - 1) \o StripStyle(Slice(s, k + 1, Len(s)))

\* A leftmost match of  OPEN (.*?) CLOSE : the first opener that a closer
\* follows, and the first closer after it.  [i, k] with i = 0 for no match.
LazyMatch(s, openers, closers) ==
  LET i == IndexFrom(s, 1, openers)
      k == IF i = 0 THEN 0 ELSE IndexFrom(s, i + 1, closers)
  IN  IF k = 0 THEN [i |-> 0, k |-> 0] ELSE [i |-> i, k |-> k]

\* Group 1 of such a match.
Group1(s, m) == Slice(s, m.i + 1, m.k - 1) \o HeadOf(s[m.k])

\* reTransDiv.FindStringSubmatch(h)
reTransDivFind(s) == LazyMatch(s, {TR_OPEN}, EndsDivClose)

\* A removal of the first match only.
reTransDivRemoveFirst(s) ==
  LET m == reTransDivFind(s)
  IN  IF m.i = 0 THEN s ELSE Slice(s, 1, m.i - 1) \o Slice(s, m.k + 1, Len(s))

\* reTransDiv.ReplaceAllString(h, "")
RECURSIVE reTransDivRemoveAll(_)
reTransDivRemoveAll(s) ==
  LET m == reTransDivFind(s)
  IN  IF m.i = 0 THEN s
      ELSE Slice(s, 1, m.i - 1) \o reTransDivRemoveAll(Slice(s, m.k + 1, Len(s)))

\* reAnyTranslation.FindStringSubmatch(h)
reAnyTranslationFind(s) == LazyMatch(s, TransOpeners, EndsAnyClose)

\* Step 2 of transform: [h, ja] after the two translation lookups.
ExtractTranslation(s) ==
  LET m1  == reTransDivFind(s)
      ja1 == IF m1.i # 0 THEN TrimSpace(stripTags(Group1(s, m1))) ELSE <<>>
      h1  == IF m1.i # 0 THEN reTransDivRemoveAll(s) ELSE s
      m2  == reAnyTranslationFind(h1)
      ja2 == IF ja1 = <<>> /\ m2.i # 0
             THEN TrimSpace(stripTags(Group1(h1, m2))) ELSE ja1
  IN  [h |-> h1, ja |-> ja2]

\* reCloze on s: the leftmost match.  "{{c1::" opens it; FRONT runs lazily to
\* the first "::" that a "}}" follows, or to the first "}}"; the "::" that
\* ends a nested "{{c1::" counts.  BACK runs to the first "}}" after it.
reClozeFind(s) ==
  LET i == IndexFrom(s, 1, {CL_OPEN})
      c == IF i = 0 THEN 0 ELSE IndexFrom(s, i + 1, {CL_CLOSE})
      j == IF c = 0 THEN 0 ELSE IndexFrom(s, i + 1, {SEP, CL_OPEN, CL_CLOSE})
  IN  IF c = 0 THEN [i |-> 0, k |-> 0, front |-> <<>>, back |-> <<>>]
      ELSE [i |-> i, k |-> c,
            front |-> Slice(s, i + 1, j - 1)
                        \o (IF s[j] = CL_OPEN THEN <<CL_HEAD>> ELSE <<>>),
            back  |-> IF j = c THEN <<>> ELSE Slice(s, j + 1, c - 1)]

\* The replacement the closure of step 3 returns for one match.
ClozeSpan(front) ==
  LET plain == TrimSpace(stripTags(front))
  IN  IF plain = <<>> THEN <<>>
      ELSE <<COLOR_OPEN>> \o EscapeString(plain) \o <<SPAN_CLOSE>>

\* A closure that lets every non-empty BACK replace ja.
ClozeJaOverwrite(ja, back) ==
  IF TrimSpace(back) # <<>> THEN TrimSpace(stripTags(back)) ELSE ja

\* A closure that takes BACK as it stands, tags included.
ClozeJaNoStrip(ja, back) ==
  IF ja = <<>> /\ TrimSpace(back) # <<>> THEN TrimSpace(back) ELSE ja

\* The closure's update of ja for one match.
ClozeJa(ja, back) ==
  IF ja = <<>> /\ TrimSpace(back) # <<>> THEN TrimSpace(stripTags(back)) ELSE ja

\* reCloze.ReplaceAllStringFunc(h, closure): [h, ja].
RECURSIVE RewriteCloze(_, _)
RewriteCloze(s, ja) ==
  LET m == reClozeFind(s)
  IN  IF m.i = 0 THEN [h |-> s, ja |-> ja]
      ELSE LET rest == RewriteCloze(Slice(s, m.k + 1, Len(s)), ClozeJa(ja, m.back))
           IN  [h  |-> Slice(s, 1, m.i - 1) \o ClozeSpan(m.front) \o rest.h,
                ja |-> rest.ja]

\* reUnwrapDown / reUnwrapGap .ReplaceAllString(h, "$1")
RECURSIVE UnwrapAll(_, _)
UnwrapAll(s, opener) ==
  LET m == LazyMatch(s, {opener}, {SPAN_CLOSE})
  IN  IF m.i = 0 THEN s
      ELSE Slice(s, 1, m.i - 1) \o Slice(s, m.i + 1, m.k - 1)
             \o UnwrapAll(Slice(s, m.k + 1, Len(s)), opener)

\* One turn of the loop of step 3.5.
UnwrapPass(s) == UnwrapAll(UnwrapAll(s, DOWN_OPEN), GAP_OPEN)

\* A replacement template that keeps the rest of the tag ("$1"$2).
CardTokKeepAttrs(t) == t

\* reCardDiv.ReplaceAllString(h, `<div class="$1" style="padding-bottom:1rem;">`)
CardTok(t) == IF t \in {CARD_OPEN, CARD_OUT} THEN CARD_OUT ELSE t

RECURSIVE NormalizeCards(_)
NormalizeCards(s) ==
  IF s = <<>> THEN <<>> ELSE <<CardTok(Head(s))>> \o NormalizeCards(Tail(s))

\* reImage.ReplaceAllStringFunc(h, closure)
ImageTok(t) ==
  CASE t \in {IMG_BG, IMG_BG_OUT}     -> IMG_BG_OUT
    [] t \in {IMG_NOBG, IMG_NOBG_OUT} -> IMG_NOBG_OUT
    [] OTHER                          -> t

RECURSIVE NormalizeImages(_)
NormalizeImages(s) ==
  IF s = <<>> THEN <<>> ELSE <<ImageTok(Head(s))>> \o NormalizeImages(Tail(s))

\* Step 6: the sound text that is inserted ("" for none).
ProcessSound(sound) ==
  LET s == Trim(sound, {QUOTE, SP})
      i == IndexFrom(s, 1, {SND})
  IN  IF s # <<>> /\ Head(s) # SND /\ i > 0 THEN Slice(s, i, Len(s)) ELSE s

\* An insert offset one too far.
InsertPointOffByOne(s) ==
  LET idx == IndexFrom(s, 1, {LINE_OPEN})
      e   == IF idx = 0 THEN 0 ELSE IndexFrom(s, idx, EndsDivClose)
  IN  IF e = 0 THEN 0 ELSE e + 1

\* A search for "</div>" in h instead of h[idx:].
InsertPointFromStart(s) ==
  IF IndexFrom(s, 1, {LINE_OPEN}) = 0 THEN 0 ELSE IndexFrom(s, 1, EndsDivClose)

\* Step 6: the index of the lexeme that ends with the first "</div>" at or
\* after the first `<div class="dc-line"`; 0 when either is missing.  The
\* code's insert (idx + end + len("</div>")) is the offset just after it.
InsertPoint(s) ==
  LET idx == IndexFrom(s, 1, {LINE_OPEN})
  IN  IF idx = 0 THEN 0 ELSE IndexFrom(s, idx, EndsDivClose)

\* A Go slice expression s[lo:hi] panics unless 0 <= lo <= hi <= len(s).
SliceInRange(s, lo, hi) == 0 <= lo /\ lo <= hi /\ hi <= Len(s)

\* Step 6 of transform: [h, panic].
InsertAudio(s, sound) ==
  LET ss == ProcessSound(sound)
      at == InsertPoint(s)
  IN  IF ss = <<>> \/ at = 0 THEN [h |-> s, panic |-> FALSE]
      ELSE IF ~SliceInRange(s, 0, at) \/ ~SliceInRange(s, at, Len(s))
      THEN [h |-> s, panic |-> TRUE]
      ELSE [h |-> Slice(s, 1, at) \o <<AUDIO_OPEN>> \o ss \o <<DIV_CLOSE>>
                    \o Slice(s, at + 1, Len(s)),
            panic |-> FALSE]

\* A replacement repeated until no two spaces stand side by side.
RECURSIVE CollapseSpacesToFixpoint(_)
CollapseSpacesToFixpoint(s) ==
  IF Len(s) < 2 THEN s
  ELSE IF s[1] = SP /\ s[2] = SP THEN CollapseSpacesToFixpoint(Tail(s))
  ELSE <<s[1]>> \o CollapseSpacesToFixpoint(Tail(s))

\* strings.ReplaceAll(h, "  ", " ")
RECURSIVE CollapseSpaces(_)
CollapseSpaces(s) ==
  IF Len(s) < 2 THEN s
  ELSE IF s[1] = SP /\ s[2] = SP
       THEN <<SP>> \o CollapseSpaces(Slice(s, 3, Len(s)))
       ELSE <<s[1]>> \o CollapseSpaces(Tail(s))

\* The loop of step 3.5: passes until one changes nothing.
RECURSIVE UnwrapLoop(_)
UnwrapLoop(s) ==
  LET n == UnwrapPass(s) IN IF n = s THEN s ELSE UnwrapLoop(n)

\* transform(h, sound, color) as a function: [h, ja, panic].
Transform(m, snd) ==
  LET t == ExtractTranslation(StripStyle(m))
      c == RewriteCloze(t.h, t.ja)
      a == InsertAudio(NormalizeImages(NormalizeCards(UnwrapLoop(c.h))), snd)
  IN  [h |-> IF a.panic THEN a.h ELSE CollapseSpaces(a.h),
       ja |-> c.ja, panic |-> a.panic]

(***************************************************************************)
(* Inputs.  A markup input is the concatenation of at most MaxFrags        *)
(* fragments drawn from one family; a fragment is one lexeme or one short  *)
(* phrase.  Each family pairs the lexemes one group of passes reacts to    *)
(* with the sound fields that matter to it.                                *)
(***************************************************************************)
MaxFrags == 4

RECURSIVE Flatten(_)
Flatten(ss) == IF ss = <<>> THEN <<>> ELSE Head(ss) \o Flatten(Tail(ss))

SeqsUpTo(S, n) == UNION { [1..k -> S] : k \in 0..n }

MarkupsOver(frags, n) == { Flatten(fs) : fs \in SeqsUpTo(frags, n) }

Singles(S) == { <<t>> : t \in S }

\* Translation sources: translation divs (with text, with tags only), another
\* dc-translation element, cloze markers with and without a BACK.
TranslationFrags ==
  { <<TR_OPEN, "a", DIV_CLOSE>>, <<TR_OPEN, B_OPEN, DIV_CLOSE>>,
    <<ANY_OPEN, "b", P_CLOSE>>,
    <<CL_OPEN, "c", SEP, "d", CL_CLOSE>>, <<CL_OPEN, "a", SEP, "b", CL_CLOSE>>,
    <<CL_OPEN, "c", SEP, B_OPEN, CL_CLOSE>>, <<CL_OPEN, "c", CL_CLOSE>>,
    <<TR_OPEN>>, <<DIV_CLOSE>> }

\* Cloze markers, lexeme by lexeme, and what may stand in or around them.
ClozeFrags ==
  Singles({ CL_OPEN, SEP, CL_CLOSE, "a", SP, B_OPEN, E_LT, GAP_OPEN, SPAN_CLOSE })
    \cup { <<CL_OPEN, "a", CL_CLOSE>>, <<"a", SP, SP, "b">> }

\* Decorative wrappers, nested and around cloze markers.
UnwrapFrags ==
  Singles({ DOWN_OPEN, GAP_OPEN, SPAN_CLOSE, "a", B_OPEN })
    \cup { <<CL_OPEN, "a", CL_CLOSE>> }

\* Block structure: lines, cards, images, spaces.
BlockFrags ==
  Singles({ LINE_OPEN, DIV_CLOSE, CARD_OPEN, IMG_BG, IMG_NOBG, TR_OPEN, SP, "a" })

\* Every lexeme an input may hold, one by one, well formed or not.
AllFrags ==
  Singles({ STYLE_OPEN, STYLE_CLOSE, TR_OPEN, ANY_OPEN, LINE_OPEN, DIV_CLOSE,
            P_CLOSE, DOWN_OPEN, GAP_OPEN, SPAN_CLOSE, B_OPEN, CARD_OPEN, IMG_BG,
            IMG_NOBG, CL_OPEN, SEP, CL_CLOSE, "a", SP, LT, GT, AMP, E_AMP, E_LT })

NoSound == { <<>> }

Sounds ==
  { <<>>, <<QUOTE, SP>>, <<QUOTE, SND, "a", QUOTE>>, <<"a", SND, "b">>,
    <<"a", SP, SP, "b">> }

Inputs ==
  (MarkupsOver(TranslationFrags, MaxFrags) \X NoSound)
    \cup (MarkupsOver(ClozeFrags, MaxFrags) \X NoSound)
    \cup (MarkupsOver(UnwrapFrags, MaxFrags) \X NoSound)
    \cup (MarkupsOver(BlockFrags, MaxFrags) \X Sounds)
    \cup (MarkupsOver(AllFrags, MaxFrags - 1) \X { <<>>, <<QUOTE, SND, "a", QUOTE>> })

(***************************************************************************)
(* transform as a state machine: one action per pass, in the order of the  *)
(* source.                                                                 *)
(***************************************************************************)
VARIABLES markup, sound, h, ja, pc, panicked

\* The command-line driver's state: main, processZip, copyZipMediaFiles.
VARIABLES mode, overwrite, force, ipc, ei, status, outf, touched,
          files, fi, cpc, copied, skipped, target, err, dst, dst0, dprev, tmpf

tvars == <<markup, sound, h, ja, pc, panicked>>

ioVars == <<mode, overwrite, force, ipc, ei, status, outf, touched,
            files, fi, cpc, copied, skipped, target, err, dst, dst0, dprev,
            tmpf>>

vars == <<tvars, ioVars>>

\* Bounds of the driver's inputs: directory entries per run, entries per archive.
MaxEntries == 2
MaxFiles == 2

\* Destination files of the media folder, by path relative to it.
MediaRels == { "x", "y" }

\* The driver before main runs (and while transform is looked at alone).
IoIdle ==
  /\ mode = "none"
  /\ overwrite = TRUE
  /\ force = FALSE
  /\ ipc = "idle"
  /\ ei = 1
  /\ status = [i \in 1..MaxEntries |-> "none"]
  /\ outf = [i \in 1..MaxEntries |-> "unseen"]
  /\ touched = {}
  /\ files = <<>>
  /\ fi = 1
  /\ cpc = "next"
  /\ copied = 0
  /\ skipped = 0
  /\ target = -1
  /\ err = "none"
  /\ dst = [r \in MediaRels |-> "absent"]
  /\ dst0 = dst
  /\ dprev = "absent"
  /\ tmpf = [r \in MediaRels |-> "absent"]

Init ==
  /\ \E in \in Inputs : markup = in[1] /\ sound = in[2]
  /\ h = markup
  /\ ja = <<>>
  /\ pc = "style"
  /\ panicked = FALSE
  /\ IoIdle

DoStripStyle ==
  /\ pc = "style"
  /\ h' = StripStyle(h)
  /\ pc' = "translation"
  /\ UNCHANGED <<markup, sound, ja, panicked, ioVars>>

DoExtractTranslation ==
  /\ pc = "translation"
  /\ LET r == ExtractTranslation(h) IN h' = r.h /\ ja' = r.ja
  /\ pc' = "cloze"
  /\ UNCHANGED <<markup, sound, panicked, ioVars>>

DoRewriteCloze ==
  /\ pc = "cloze"
  /\ LET r == RewriteCloze(h, ja) IN h' = r.h /\ ja' = r.ja
  /\ pc' = "unwrap"
  /\ UNCHANGED <<markup, sound, panicked, ioVars>>

\* A single pass instead of the loop.
DoUnwrapOnce ==
  /\ pc = "unwrap"
  /\ h' = UnwrapPass(h)
  /\ pc' = "card"
  /\ UNCHANGED <<markup, sound, ja, panicked, ioVars>>

DoUnwrapPass ==
  /\ pc = "unwrap"
  /\ h' = UnwrapPass(h)
  /\ pc' = IF h' = h THEN "card" ELSE "unwrap"
  /\ UNCHANGED <<markup, sound, ja, panicked, ioVars>>

DoNormalizeCards ==
  /\ pc = "card"
  /\ h' = NormalizeCards(h)
  /\ pc' = "image"
  /\ UNCHANGED <<markup, sound, ja, panicked, ioVars>>

DoNormalizeImages ==
  /\ pc = "image"
  /\ h' = NormalizeImages(h)
  /\ pc' = "audio"
  /\ UNCHANGED <<markup, sound, ja, panicked, ioVars>>

DoInsertAudio ==
  /\ pc = "audio"
  /\ LET r == InsertAudio(h, sound)
     IN  /\ h' = r.h
         /\ panicked' = r.panic
         /\ pc' = IF r.panic THEN "panic" ELSE "space"
  /\ UNCHANGED <<markup, sound, ja, ioVars>>

DoCollapseSpaces ==
  /\ pc = "space"
  /\ h' = CollapseSpaces(h)
  /\ pc' = "done"
  /\ UNCHANGED <<markup, sound, ja, panicked, ioVars>>

Next ==
  \/ DoStripStyle
  \/ DoExtractTranslation
  \/ DoRewriteCloze
  \/ DoUnwrapPass
  \/ DoNormalizeCards
  \/ DoNormalizeImages
  \/ DoInsertAudio
  \/ DoCollapseSpaces

Spec == Init /\ [][Next]_vars

(***************************************************************************)
(* Properties of transform.                                                *)
(***************************************************************************)
\* The markup each pass receives, recomputed from the input.
AfterStyle(m) == StripStyle(m)
AfterTranslation(m) == ExtractTranslation(StripStyle(m)).h
BeforeCards(m) == UnwrapLoop(RewriteCloze(AfterTranslation(m), <<>>).h)

RECURSIVE FirstNonEmpty(_)
FirstNonEmpty(vals) ==
  IF vals = <<>> THEN <<>>
  ELSE IF Head(vals) # <<>> THEN Head(vals) ELSE FirstNonEmpty(Tail(vals))

\* Source 1: the text of the first `dc-line dc-translation` div.
Source1(s) ==
  LET m == reTransDivFind(s)
  IN  IF m.i = 0 THEN <<>> ELSE stripTags(Group1(s, m))

\* Source 2: the text of the first element of class dc-translation.
Source2(s) ==
  LET m == reAnyTranslationFind(s)
  IN  IF m.i = 0 THEN <<>> ELSE stripTags(Group1(s, m))

\* Source 3: the texts of the BACK halves of the cloze markers, in order.
RECURSIVE Backs(_)
Backs(s) ==
  LET m == reClozeFind(s)
  IN  IF m.i = 0 THEN <<>>
      ELSE <<stripTags(m.back)>> \o Backs(Slice(s, m.k + 1, Len(s)))

\* C1: the returned translation is the value of the first source, in the
\* order translation div, dc-translation element, cloze BACK halves, that
\* yields a non-empty value; and once ja is non-empty no later pass changes it.
C1_FirstMatchWins ==
  /\ [](pc = "done" =>
          ja = FirstNonEmpty(<<Source1(AfterStyle(markup)),
                               Source2(AfterTranslation(markup))>>
                             \o Backs(AfterTranslation(markup))))
  /\ [][ja # <<>> => ja' = ja]_vars

\* C1 witness: the translation div won although a cloze BACK had another text.
C1_Witness ==
  /\ pc = "done"
  /\ ja = Source1(AfterStyle(markup))
  /\ \E i \in DOMAIN Backs(AfterTranslation(markup)) :
        Backs(AfterTranslation(markup))[i] \notin {<<>>, ja}

RECURSIVE ExpectedSpans(_)
ExpectedSpans(s) ==
  LET m == reClozeFind(s)
      plain == stripTags(m.front)
  IN  IF m.i = 0 THEN <<>>
      ELSE (IF plain = <<>> THEN <<>> ELSE <<EscapeString(plain)>>)
             \o ExpectedSpans(Slice(s, m.k + 1, Len(s)))

\* The contents of the color containers of s: from each color tag to the
\* next "</span>".
RECURSIVE ColorSpans(_)
ColorSpans(s) ==
  LET i == IndexFrom(s, 1, {COLOR_OPEN})
      k == IF i = 0 THEN 0 ELSE IndexFrom(s, i + 1, {SPAN_CLOSE})
  IN  IF i = 0 THEN <<>>
      ELSE IF k = 0 THEN <<Slice(s, i + 1, Len(s))>>
      ELSE <<Slice(s, i + 1, k - 1)>> \o ColorSpans(Slice(s, k + 1, Len(s)))

\* C3 as stated: the returned markup holds, for each cloze marker with a
\* non-empty PLAIN, one color container whose text is PLAIN escaped, and none
\* for a marker whose PLAIN is empty.
C3_Original ==
  pc = "done" => ColorSpans(h) = ExpectedSpans(AfterTranslation(markup))

\* A cloze marker and the text after it inside a dc-gap wrapper: the color
\* container of the result holds the text after the marker as well.
C3_Witness ==
  /\ pc = "done"
  /\ markup = <<GAP_OPEN, CL_OPEN, "a", CL_CLOSE, "a", SPAN_CLOSE>>
  /\ h = <<COLOR_OPEN, "a", "a", SPAN_CLOSE>>

\* C4: transform never panics on any input, and empty markup with an empty
\* sound gives the empty markup and the empty translation.
C4_Total ==
  /\ pc # "panic" /\ ~panicked
  /\ (pc = "done" /\ markup = <<>> /\ sound = <<>>) => (h = <<>> /\ ja = <<>>)

\* C4 witness: a result for markup with an unterminated line, an unterminated
\* cloze marker or a stray '<', and a sound to insert.
C4_Witness ==
  /\ pc = "done"
  /\ ProcessSound(sound) # <<>>
  /\ \/ Contains(markup, {LINE_OPEN}) /\ ~Contains(markup, EndsDivClose)
     \/ Contains(markup, {CL_OPEN}) /\ ~Contains(markup, {CL_CLOSE})
     \/ Contains(markup, {LT})

\* The closing tag of the div element opened at i: the lexeme at which the
\* nesting depth returns to zero; 0 when the element is never closed.
DivOpeners == { LINE_OPEN, TR_OPEN, CARD_OPEN, CARD_OUT, AUDIO_OPEN }

RECURSIVE MatchingClose(_, _, _)
MatchingClose(s, i, depth) ==
  IF i > Len(s) THEN 0
  ELSE IF s[i] \in DivOpeners THEN MatchingClose(s, i + 1, depth + 1)
  ELSE IF s[i] = DIV_CLOSE
       THEN IF depth = 1 THEN i ELSE MatchingClose(s, i + 1, depth - 1)
  ELSE MatchingClose(s, i + 1, depth)

InsertAfter(s, at, x) == Slice(s, 1, at) \o x \o Slice(s, at + 1, Len(s))

AudioBox(ss) == <<AUDIO_OPEN>> \o ss \o <<DIV_CLOSE>>

\* C5 as stated: with a non-empty processed sound, the returned markup is the
\* markup returned for an empty sound with one audio container, holding the
\* processed sound, right after the closing tag of the first dc-line element;
\* without a dc-line element it is the markup returned for an empty sound.
C5_Original ==
  (pc = "done" /\ ProcessSound(sound) # <<>>) =>
     LET base == Transform(markup, <<>>).h
         line == IndexFrom(base, 1, {LINE_OPEN})
     IN  IF line = 0 THEN h = base
         ELSE /\ MatchingClose(base, line + 1, 1) # 0
              /\ h = InsertAfter(base, MatchingClose(base, line + 1, 1),
                                  AudioBox(ProcessSound(sound)))

\* C5 amended: with a non-empty processed sound and a "</div>" after the first
\* `<div class="dc-line"` tag, the returned markup is the markup returned for
\* an empty sound with one audio container right after the first such
\* "</div>", holding the processed sound with its double spaces collapsed;
\* in every other case it is the markup returned for an empty sound.
C5_AudioAfterFirstClose ==
  pc = "done" =>
     LET base == Transform(markup, <<>>).h
         line == IndexFrom(base, 1, {LINE_OPEN})
         e    == IF line = 0 THEN 0 ELSE IndexFrom(base, line, EndsDivClose)
     IN  IF ProcessSound(sound) # <<>> /\ e # 0
         THEN /\ h = InsertAfter(base, e, AudioBox(CollapseSpaces(ProcessSound(sound))))
              /\ Count(h, {AUDIO_OPEN}) = 1
         ELSE h = base

\* C5 witness: a sound inserted after a line that is not the first "</div>"
\* of the markup.
C5_Witness ==
  /\ pc = "done"
  /\ ProcessSound(sound) # <<>>
  /\ Count(h, {AUDIO_OPEN}) = 1
  /\ IndexFrom(h, 1, EndsDivClose) < IndexFrom(h, 1, {LINE_OPEN})
  /\ IndexFrom(h, 1, EndsDivClose) # 0

\* A wrapper that a pass would still unwrap.
HasWrapper(s) ==
  \E i, k \in DOMAIN s :
     i < k /\ s[i] \in {DOWN_OPEN, GAP_OPEN} /\ s[k] = SPAN_CLOSE

\* C6: the unwrap loop ends (each turn that is not the last shortens the
\* markup), and its result is a fixed point of the pass.
C6_UnwrapFixpoint ==
  /\ [](pc = "card" => UnwrapPass(h) = h /\ ~HasWrapper(h))
  /\ [][(pc = "unwrap" /\ pc' = "unwrap") => Len(h') < Len(h)]_vars

\* C6 witness: a result that took more than one changing pass.
C6_Witness ==
  /\ pc = "card"
  /\ LET c == RewriteCloze(AfterTranslation(markup), <<>>).h
     IN  UnwrapPass(UnwrapPass(c)) # UnwrapPass(c)

Least(S) == CHOOSE x \in S : \A y \in S : x <= y

\* The BACK halves of the cloze markers of s as the pattern captures them,
\* in document order.
RECURSIVE RawBacks(_)
RawBacks(s) ==
  LET m == reClozeFind(s)
  IN  IF m.i = 0 THEN <<>>
      ELSE <<m.back>> \o RawBacks(Slice(s, m.k + 1, Len(s)))

\* The translation after step 2, before any cloze marker is looked at.
JaBeforeCloze(m) == ExtractTranslation(StripStyle(m)).ja

\* The indices of the sequences of vals that are not empty.
NonEmptyAt(vals) == { i \in DOMAIN vals : vals[i] # <<>> }

\* C11 as the specification words it: when the containers gave no
\* translation, the returned translation is the tag-stripped, decoded and
\* trimmed BACK of the first cloze marker whose BACK, as written, is not
\* empty (and is empty when there is no such marker).
C11_Original ==
  (pc = "done" /\ JaBeforeCloze(markup) = <<>>) =>
     LET raw == RawBacks(AfterTranslation(markup))
     IN  ja = IF NonEmptyAt(raw) = {} THEN <<>>
              ELSE stripTags(raw[Least(NonEmptyAt(raw))])

\* C11, amended: when the containers gave no translation, the returned
\* translation is the tag-stripped, decoded and trimmed BACK of the first
\* cloze marker for which that text is not empty (and is empty when there
\* is none); the BACK of a later marker never replaces it.
C11_FirstClozeBack ==
  (pc = "done" /\ JaBeforeCloze(markup) = <<>>) =>
     LET texts == Backs(AfterTranslation(markup))
     IN  ja = IF NonEmptyAt(texts) = {} THEN <<>>
              ELSE texts[Least(NonEmptyAt(texts))]

\* Two cloze markers with different BACK texts and no translation
\* container: the first marker's BACK was returned.
C11_Witness ==
  /\ pc = "done"
  /\ JaBeforeCloze(markup) = <<>>
  /\ LET texts == Backs(AfterTranslation(markup))
     IN  /\ Cardinality(NonEmptyAt(texts)) >= 2
         /\ ja = texts[Least(NonEmptyAt(texts))]
         /\ \E i \in NonEmptyAt(texts) : texts[i] # ja

\* The markup the final whitespace step receives, recomputed from the input.
BeforeSpaces(m, snd) ==
  InsertAudio(NormalizeImages(NormalizeCards(BeforeCards(m))), snd).h

\* The length of the run of spaces s begins with.
RECURSIVE RunLen(_)
RunLen(s) ==
  IF s = <<>> \/ Head(s) # SP THEN 0 ELSE 1 + RunLen(Tail(s))

\* The length of the longest run of spaces of s.
RECURSIVE LongestRun(_)
LongestRun(s) ==
  IF s = <<>> THEN 0
  ELSE LET n == RunLen(s)
           rest == LongestRun(Slice(s, (IF n = 0 THEN 1 ELSE n) + 1, Len(s)))
       IN  IF n > rest THEN n ELSE rest

\* s with each maximal run of n spaces made a run of ceil(n/2) spaces and
\* everything else kept.
RECURSIVE HalveRuns(_)
HalveRuns(s) ==
  IF s = <<>> THEN <<>>
  ELSE LET n == RunLen(s)
       IN  IF n = 0 THEN <<Head(s)>> \o HalveRuns(Tail(s))
           ELSE [i \in 1..((n + 1) \div 2) |-> SP]
                  \o HalveRuns(Slice(s, n + 1, Len(s)))

\* C12: the final whitespace step turns every maximal run of n spaces of
\* the markup it receives, inserted audio text included, into a run of
\* ceil(n/2) spaces and changes nothing else; so the returned markup is the
\* markup before that step with its runs halved, which may still hold two
\* spaces side by side.
C12_RunsHalved ==
  /\ [][pc = "space" => h' = HalveRuns(h)]_vars
  /\ [](pc = "done" => h = HalveRuns(BeforeSpaces(markup, sound)))

\* A run of three or more spaces reached the final step, and the returned
\* markup still holds two spaces side by side.
C12_Witness ==
  /\ pc = "done"
  /\ LongestRun(BeforeSpaces(markup, sound)) >= 3
  /\ LongestRun(h) >= 2
  /\ Len(h) < Len(BeforeSpaces(markup, sound))

(***************************************************************************)
(* The command-line driver: main, processZip, copyZipMediaFiles,           *)
(* processTSV.  An archive is the sequence of its entry names; a file of   *)
(* the disk is known by how much of its content is there.                  *)
(***************************************************************************)
\* Entry names an archive may hold.
N_ITEM == "item.csv"
N_ITEMS_SUB == "d/ITEMS.CSV"
N_A == "a.csv"
N_B == "b.csv"
N_MEDIA_X == "media/x"
N_MEDIA_Y == "Media/y"
N_MEDIA_DIR == "media/"

EntryNames ==
  { N_ITEM, N_ITEMS_SUB, N_A, N_B, N_MEDIA_X, N_MEDIA_Y, N_MEDIA_DIR }

\* Longer archives: media before the data file, the same media entry twice,
\* candidate names after and before other .csv entries.
LongArchives ==
  { <<N_MEDIA_X, N_MEDIA_Y, N_A>>, <<N_MEDIA_X, N_MEDIA_X, N_ITEM>>,
    <<N_A, N_B, N_ITEMS_SUB>>, <<N_ITEM, N_ITEMS_SUB, N_A>>,
    <<N_MEDIA_DIR, N_B, N_A, N_MEDIA_Y>> }

\* Every archive of at most MaxFiles entries, and the longer ones above.
Archives == UNION { [1..n -> EntryNames] : n \in 0..MaxFiles } \cup LongArchives

\* strings.ToLower(path.Base(name))
BaseLower(name) ==
  CASE name = N_ITEM -> "item.csv"
    [] name = N_ITEMS_SUB -> "items.csv"
    [] name = N_A -> "a.csv"
    [] name = N_B -> "b.csv"
    [] name = N_MEDIA_X -> "x"
    [] name = N_MEDIA_Y -> "y"
    [] OTHER -> "media"

\* strings.HasSuffix(base, ".csv")
HasCsvSuffix(base) == base \in { "item.csv", "items.csv", "a.csv", "b.csv" }

\* The path below the media folder an entry is copied to; "" for an entry
\* that is not under media/, that is the folder itself, or a directory.
MediaRel(name) ==
  CASE name = N_MEDIA_X -> "x"
    [] name = N_MEDIA_Y -> "y"
    [] OTHER -> ""

\* The selection loop of processZip: target is the last entry named as a
\* candidate, fallback the first other entry ending in .csv (0: none).
RECURSIVE SelectLoop(_, _, _, _)
SelectLoop(fs, i, tgt, fallback) ==
  IF i > Len(fs) THEN [target |-> tgt, fallback |-> fallback]
  ELSE LET base == BaseLower(fs[i])
       IN  IF base \in { "item.csv", "items.csv" }
             THEN SelectLoop(fs, i + 1, i, fallback)
           ELSE IF HasCsvSuffix(base) /\ fallback = 0
             THEN SelectLoop(fs, i + 1, tgt, i)
           ELSE SelectLoop(fs, i + 1, tgt, fallback)

\* The fallback taken only when the archive has a single other .csv entry.
SelectDataFileIfUnique(fs) ==
  LET r == SelectLoop(fs, 1, 0, 0)
      others == { i \in 1..Len(fs) :
                    /\ HasCsvSuffix(BaseLower(fs[i]))
                    /\ BaseLower(fs[i]) \notin { "item.csv", "items.csv" } }
  IN  IF r.target # 0 THEN r.target
      ELSE IF Cardinality(others) = 1 THEN r.fallback
      ELSE 0

SelectDataFile(fs) ==
  LET r == SelectLoop(fs, 1, 0, 0)
  IN  IF r.target = 0 THEN r.fallback ELSE r.target

\* The same loop in the earlier revision: every other .csv entry replaces
\* the fallback.
RECURSIVE SelectLoopRev1(_, _, _, _)
SelectLoopRev1(fs, i, tgt, fallback) ==
  IF i > Len(fs) THEN [target |-> tgt, fallback |-> fallback]
  ELSE LET base == BaseLower(fs[i])
       IN  IF base \in { "item.csv", "items.csv" }
             THEN SelectLoopRev1(fs, i + 1, i, fallback)
           ELSE IF HasCsvSuffix(base)
             THEN SelectLoopRev1(fs, i + 1, tgt, i)
           ELSE SelectLoopRev1(fs, i + 1, tgt, fallback)

SelectDataFileRev1(fs) ==
  LET r == SelectLoopRev1(fs, 1, 0, 0)
  IN  IF r.target = 0 THEN r.fallback ELSE r.target

\* A check that reports the error and lets the caller go on.
checkAndContinue(e, next) == next

\* check(err): panic on an error.
check(e, next) == IF e THEN "panic" ELSE next

\* Where main goes once a package is dealt with.
AfterPackage == IF mode = "dir" THEN "loop" ELSE "finished"

\* processZip (or processTSVFile) returns an error to main's check.
Fail(cause) ==
  /\ err' = cause
  /\ status' = [status EXCEPT ![ei] = "failed"]
  /\ ipc' = check(TRUE, AfterPackage)
  /\ ei' = IF ipc' = "panic" THEN ei ELSE ei + 1

InitIO ==
  /\ markup = <<>>
  /\ sound = <<>>
  /\ h = <<>>
  /\ ja = <<>>
  /\ pc = "idle"
  /\ panicked = FALSE
  /\ mode \in { "dir", "zip", "tsv" }
  /\ overwrite \in BOOLEAN
  /\ force \in BOOLEAN
  /\ ipc = "start"
  /\ ei = 1
  /\ status = [i \in 1..MaxEntries |-> "none"]
  /\ outf = [i \in 1..MaxEntries |-> "unseen"]
  /\ touched = {}
  /\ files = <<>>
  /\ fi = 1
  /\ cpc = "next"
  /\ copied = 0
  /\ skipped = 0
  /\ target = -1
  /\ err = "none"
  /\ dst \in [MediaRels -> { "absent", "old" }]
  /\ dst0 = dst
  /\ dprev = "absent"
  /\ tmpf = [r \in MediaRels |-> "absent"]

\* main up to the dispatch on -in: the two folders are made, and in batch
\* mode the directory is read.
MainSetup ==
  /\ ipc = "start"
  /\ \E e \in BOOLEAN, ex \in BOOLEAN :
       /\ ipc' = check(e, CASE mode = "dir" -> "loop"
                            [] mode = "zip" -> "open"
                            [] OTHER -> "tsvfile")
       /\ err' = IF e THEN "setup" ELSE "none"
       /\ outf' = IF e \/ mode = "dir" THEN outf
                  ELSE [outf EXCEPT ![1] = IF ex THEN "old" ELSE "absent"]
  /\ UNCHANGED <<tvars, mode, overwrite, force, ei, status, touched, files, fi,
                 cpc, copied, skipped, target, dst, dst0, dprev, tmpf>>

\* One turn of the loop over the directory's entries.
BatchNext ==
  /\ ipc = "loop"
  /\ IF ei > MaxEntries
       THEN /\ ipc' = "finished"
            /\ UNCHANGED <<ei, status, outf>>
       ELSE \E kind \in { "end", "other", "zip" }, ex \in BOOLEAN :
              CASE kind = "end" ->
                     /\ ipc' = "finished"
                     /\ UNCHANGED <<ei, status, outf>>
                [] kind = "other" ->
                     /\ status' = [status EXCEPT ![ei] = "ignored"]
                     /\ ei' = ei + 1
                     /\ UNCHANGED <<ipc, outf>>
                [] OTHER ->
                     /\ outf' = [outf EXCEPT ![ei] = IF ex THEN "old" ELSE "absent"]
                     /\ IF ~force /\ ex
                          THEN /\ status' = [status EXCEPT ![ei] = "skipped"]
                               /\ ei' = ei + 1
                               /\ UNCHANGED ipc
                          ELSE /\ ipc' = "open"
                               /\ UNCHANGED <<ei, status>>
  /\ UNCHANGED <<tvars, mode, overwrite, force, touched, files, fi, cpc, copied,
                 skipped, target, err, dst, dst0, dprev, tmpf>>

\* processZip opens the archive.
OpenZip ==
  /\ ipc = "open"
  /\ \E e \in BOOLEAN :
       IF e THEN /\ Fail("openzip")
                 /\ UNCHANGED <<files, fi, cpc, copied, skipped, target>>
       ELSE /\ \E fs \in Archives : files' = fs
            /\ fi' = 1
            /\ cpc' = "next"
            /\ copied' = 0
            /\ skipped' = 0
            /\ target' = -1
            /\ ipc' = "copy"
            /\ UNCHANGED <<err, status, ei>>
  /\ UNCHANGED <<tvars, mode, overwrite, force, outf, touched, dst, dst0, dprev,
                 tmpf>>

\* copyZipMediaFiles, the head of the loop: the entry is passed over,
\* skipped, or opened for copying; after the last entry the function returns.
CopyNext ==
  /\ ipc = "copy" /\ cpc = "next"
  /\ IF fi > Len(files)
       THEN /\ ipc' = "select"
            /\ UNCHANGED <<fi, cpc, skipped, err, status, ei, dprev>>
       ELSE LET r == MediaRel(files[fi])
            IN  IF r = ""
                  THEN /\ fi' = fi + 1
                       /\ UNCHANGED <<ipc, cpc, skipped, err, status, ei, dprev>>
                ELSE IF ~overwrite /\ dst[r] # "absent"
                  THEN /\ skipped' = skipped + 1
                       /\ fi' = fi + 1
                       /\ UNCHANGED <<ipc, cpc, err, status, ei, dprev>>
                ELSE \E e \in { "none", "mkdir", "open" } :
                       /\ dprev' = dst[r]
                       /\ IF e = "none"
                            THEN /\ cpc' = "create"
                                 /\ UNCHANGED <<ipc, fi, skipped, err, status, ei>>
                            ELSE /\ Fail(e)
                                 /\ UNCHANGED <<fi, cpc, skipped>>
  /\ UNCHANGED <<tvars, mode, overwrite, force, outf, touched, files, copied,
                 target, dst, dst0, tmpf>>

\* os.Create of the temporary file.
CopyCreate ==
  /\ ipc = "copy" /\ cpc = "create"
  /\ LET r == MediaRel(files[fi])
     IN  \E e \in BOOLEAN :
           IF e THEN /\ Fail("create")
                     /\ UNCHANGED <<cpc, tmpf>>
           ELSE /\ tmpf' = [tmpf EXCEPT ![r] = "partial"]
                /\ cpc' = "write"
                /\ UNCHANGED <<err, status, ipc, ei>>
  /\ UNCHANGED <<tvars, mode, overwrite, force, outf, touched, files, fi, copied,
                 skipped, target, dst, dst0, dprev>>

\* io.Copy into the temporary file and its Close; on an error of either the
\* temporary file is removed.
CopyWrite ==
  /\ ipc = "copy" /\ cpc = "write"
  /\ LET r == MediaRel(files[fi])
     IN  \E e \in { "none", "copy", "close" } :
           IF e = "none"
             THEN /\ tmpf' = [tmpf EXCEPT ![r] = "full"]
                  /\ cpc' = "rename"
                  /\ UNCHANGED <<err, status, ipc, ei>>
             ELSE /\ tmpf' = [tmpf EXCEPT ![r] = "absent"]
                  /\ Fail(e)
                  /\ UNCHANGED cpc
  /\ UNCHANGED <<tvars, mode, overwrite, force, outf, touched, files, fi, copied,
                 skipped, target, dst, dst0, dprev>>

\* os.Rename of the temporary file onto the destination.
CopyRename ==
  /\ ipc = "copy" /\ cpc = "rename"
  /\ LET r == MediaRel(files[fi])
     IN  \E e \in BOOLEAN :
           IF e THEN /\ Fail("rename")
                     /\ UNCHANGED <<cpc, tmpf, dst, copied, touched, fi>>
           ELSE /\ dst' = [dst EXCEPT ![r] = tmpf[r]]
                /\ tmpf' = [tmpf EXCEPT ![r] = "absent"]
                /\ copied' = copied + 1
                /\ touched' = touched \cup { ei }
                /\ fi' = fi + 1
                /\ cpc' = "next"
                /\ UNCHANGED <<err, status, ipc, ei>>
  /\ UNCHANGED <<tvars, mode, overwrite, force, outf, files, skipped, target,
                 dst0, dprev>>

\* processZip chooses the data file and opens it.
SelectData ==
  /\ ipc = "select"
  /\ target' = SelectDataFile(files)
  /\ IF target' = 0 THEN Fail("notfound")
     ELSE \E e \in BOOLEAN :
            IF e THEN Fail("opendata")
            ELSE /\ ipc' = "tsv"
                 /\ UNCHANGED <<err, status, ei>>
  /\ UNCHANGED <<tvars, mode, overwrite, force, outf, touched, files, fi, cpc,
                 copied, skipped, dst, dst0, dprev, tmpf>>

\* processTSVFile opens the input file.
OpenTSVFile ==
  /\ ipc = "tsvfile"
  /\ \E e \in BOOLEAN :
       IF e THEN Fail("openin")
       ELSE /\ ipc' = "tsv"
            /\ UNCHANGED <<err, status, ei>>
  /\ UNCHANGED <<tvars, mode, overwrite, force, outf, touched, files, fi, cpc,
                 copied, skipped, target, dst, dst0, dprev, tmpf>>

\* processTSV: the output file is created, the records are transformed and
\* written one by one.
ProcessTSV ==
  /\ ipc = "tsv"
  /\ \E o \in { "mkdirout", "createout", "read", "write", "ok" } :
       CASE o \in { "mkdirout", "createout" } ->
              /\ Fail(o)
              /\ UNCHANGED <<outf, files, fi, copied, skipped, target>>
         [] o \in { "read", "write" } ->
              /\ outf' = [outf EXCEPT ![ei] = "partial"]
              /\ Fail(o)
              /\ UNCHANGED <<files, fi, copied, skipped, target>>
         [] OTHER ->
              /\ outf' = [outf EXCEPT ![ei] = "complete"]
              /\ status' = [status EXCEPT ![ei] = "ok"]
              /\ ipc' = AfterPackage
              /\ ei' = ei + 1
              /\ files' = <<>>
              /\ fi' = 1
              /\ copied' = 0
              /\ skipped' = 0
              /\ target' = -1
              /\ UNCHANGED err
  /\ UNCHANGED <<tvars, mode, overwrite, force, touched, cpc, dst, dst0, dprev,
                 tmpf>>

NextIO ==
  \/ MainSetup
  \/ BatchNext
  \/ OpenZip
  \/ CopyNext
  \/ CopyCreate
  \/ CopyWrite
  \/ CopyRename
  \/ SelectData
  \/ OpenTSVFile
  \/ ProcessTSV

SpecIO == InitIO /\ [][NextIO]_vars


(***************************************************************************)
(* Properties of the driver.                                               *)
(***************************************************************************)
\* Entries of an archive named exactly as a candidate, and entries ending
\* in .csv that are not.
ExactEntries(fs) ==
  { i \in 1..Len(fs) : BaseLower(fs[i]) \in { "item.csv", "items.csv" } }

OtherCsvEntries(fs) ==
  { i \in 1..Len(fs) : HasCsvSuffix(BaseLower(fs[i])) } \ ExactEntries(fs)

C9_FailFast ==
  mode = "dir" =>
    \A i \in 1..MaxEntries :
      status[i] = "failed" =>
        /\ ipc = "panic"
        /\ ei = i
        /\ \A j \in (i + 1)..MaxEntries :
             status[j] = "none" /\ outf[j] = "unseen" /\ j \notin touched

\* The first package of a directory has failed after copying media.
C9_Witness ==
  /\ mode = "dir"
  /\ status[1] = "failed"
  /\ 1 \in touched
  /\ MaxEntries > 1

\* Errors copyZipMediaFiles returns for the entry it is copying.
CopyErrors == { "open", "create", "copy", "close", "rename" }

\* C10 as the specification words it: no destination file is ever partly
\* written; with overwrite disabled a destination that existed keeps its
\* content; and when copying an entry has failed, its temporary file is
\* gone and its destination holds what it held before.
C10_Original ==
  /\ \A r \in MediaRels : dst[r] # "partial"
  /\ ~overwrite => \A r \in MediaRels : dst0[r] = "old" => dst[r] = "old"
  /\ (ipc = "panic" /\ err \in CopyErrors) =>
       LET r == MediaRel(files[fi])
       IN  tmpf[r] = "absent" /\ dst[r] = dprev

\* The rename of a fully written temporary file has failed.
C10_Witness ==
  /\ ipc = "panic"
  /\ err = "rename"
  /\ tmpf[MediaRel(files[fi])] = "full"

====
